---- MODULE Spec2Model ----
(***************************************************************************)
(* Session Recall plugin (src/extensions/session-recall/index.ts).         *)
(*                                                                         *)
(* Units.  Scores read from the backend and cfg.minScore are in percent    *)
(* (0.6 is 60).  Decay factors are in tenths (0.8 is 8).  A decayed score  *)
(* is score * factor and is therefore in thousandths (0.6 * 0.8 is 480).   *)
(* Ages are in tenths of a day (6.9 days is 69).                           *)
(* Text is a sequence of one-character strings; the backend's standard     *)
(* output is a sequence of lexical tokens.                                 *)
(***************************************************************************)
EXTENDS Integers, Sequences, FiniteSets, TLC

VARIABLES
    cfg,        \* cfg parsed by register() from api.pluginConfig
    phase,      \* "loaded" | "disabled" | "idle" | "returned"
    prompt,     \* event.prompt of the invocation in progress
    backend,    \* what the external search process does when executed
    stat,       \* what statSync answers for each path
    cmd,        \* command lines handed to execSync in this invocation
    decayed,    \* value of applyDecay(sessionResults) in this invocation
    results,    \* value returned by searchSessions in this invocation
    fmtArgs,    \* arguments formatContext was invoked with
    ret,        \* value the handler resolved with
    threw,      \* TRUE when the handler rejected with an error
    logs,       \* api.logger calls of the last operation
    ageInDays,  \* age of one session file as time passes
    decayFactor,\* getDecayFactor(ageInDays)
    ageLabel    \* formatAge(ageInDays)

vars == <<cfg, phase, prompt, backend, stat, cmd, decayed, results, fmtArgs,
          ret, threw, logs, ageInDays, decayFactor, ageLabel>>

handlerVars == <<prompt, backend, stat, cmd, decayed, results, fmtArgs, ret, threw>>
ageVars == <<ageInDays, decayFactor, ageLabel>>

(***************************************************************************)
(* Bounds of the model.                                                    *)
(***************************************************************************)
MaxHits == 2
MaxResultsCfg == 2
MaxAge == 4200
MaxStep == 2

(***************************************************************************)
(* Generic helpers.                                                        *)
(***************************************************************************)
Min(a, b) == IF a <= b THEN a ELSE b

RECURSIVE SeqsUpTo(_, _)
SeqsUpTo(S, n) ==
    IF n = 0 THEN {<<>>}
    ELSE LET shorter == SeqsUpTo(S, n - 1)
         IN  shorter \cup {Append(s, x) : s \in {t \in shorter : Len(t) = n - 1}, x \in S}

(***************************************************************************)
(* Text: String.prototype.toLowerCase / includes / startsWith / replace.   *)
(***************************************************************************)
ToLowerChar(ch) ==
    CASE ch = "A" -> "a" [] ch = "B" -> "b" [] ch = "E" -> "e"
      [] ch = "H" -> "h" [] ch = "M" -> "m" [] ch = "R" -> "r"
      [] ch = "S" -> "s" [] ch = "T" -> "t" [] ch = "Y" -> "y"
      [] OTHER -> ch

toLowerCase(s) == [i \in 1..Len(s) |-> ToLowerChar(s[i])]

MatchesAt(s, needle, i) ==
    /\ i + Len(needle) - 1 <= Len(s)
    /\ \A k \in 1..Len(needle) : s[i + k - 1] = needle[k]

includes(s, needle) == \E i \in 1..(Len(s) + 1) : MatchesAt(s, needle, i)

startsWith(s, needle) == MatchesAt(s, needle, 1)

RECURSIVE EscapeQuery(_)
EscapeQuery(s) ==
    IF s = <<>> THEN <<>>
    ELSE IF Head(s) = "'" THEN <<"'", "\\", "'", "'">> \o EscapeQuery(Tail(s))
         ELSE <<Head(s)>> \o EscapeQuery(Tail(s))

NeedleHeartbeat == <<"h", "e", "a", "r", "t", "b", "e", "a", "t">>
NeedleSystem == <<"[", "s", "y", "s", "t", "e", "m">>

(***************************************************************************)
(* Prompts the host dispatches.  NoPrompt is an event without a prompt.    *)
(***************************************************************************)
NoPrompt == <<"<undefined>">>
PromptEmpty == <<>>
PromptShort == <<"h", "i", "!">>
PromptHeartbeat ==
    <<"H", "E", "A", "R", "T", "B", "E", "A", "T", " ", "p", "o", "l", "l">>
PromptHeartbeatMid ==
    <<"i", "s", " ", "H", "e", "a", "r", "t", "b", "e", "a", "t", " ", "o", "k">>
PromptSystem ==
    <<"[", "S", "y", "s", "t", "e", "m", "]", " ", "w", "a", "k", "e">>
PromptSystemMid ==
    <<"r", "e", " ", "[", "s", "y", "s", "t", "e", "m", "]", " ", "n", "o", "t", "e">>
PromptNearMiss ==
    <<"h", "e", "a", "r", "t", "b", "e", "e", "t", " ", "s", "o", "n", "g">>
PromptPlain ==
    <<"w", "h", "a", "t", "'", "s", " ", "t", "h", "e", " ", "p", "l", "a", "n">>

Prompts ==
    {NoPrompt, PromptEmpty, PromptShort, PromptHeartbeat, PromptHeartbeatMid,
     PromptSystem, PromptSystemMid, PromptNearMiss, PromptPlain}

(***************************************************************************)
(* Configuration (sessionRecallConfigSchema).                              *)
(***************************************************************************)
DefaultMinScore == 50
DefaultMinPromptLength == 10

Configs ==
    {[enabled |-> e, maxResults |-> m, minScore |-> t[1], minPromptLength |-> t[2],
      agentId |-> "main"] :
        e \in BOOLEAN, m \in 1..MaxResultsCfg,
        t \in {<<DefaultMinScore, DefaultMinPromptLength>>, <<0, 0>>}}

(***************************************************************************)
(* Decay tiers.  maxDays is in tenths of a day, factor in tenths; the      *)
(* last tier's bound is Infinity.                                          *)
(***************************************************************************)
Infinity == -1

DECAY_TIERS ==
    <<[maxDays |-> 70, factor |-> 10],
      [maxDays |-> 300, factor |-> 8],
      [maxDays |-> 900, factor |-> 5],
      [maxDays |-> Infinity, factor |-> 2]>>

WithinTier(a, tier) == tier.maxDays = Infinity \/ a <= tier.maxDays

WithinTierStrict(a, tier) == tier.maxDays = Infinity \/ a < tier.maxDays

TiersWithin(a) == {i \in 1..Len(DECAY_TIERS) : WithinTier(a, DECAY_TIERS[i])}

TiersWithinStrict(a) == {i \in 1..Len(DECAY_TIERS) : WithinTierStrict(a, DECAY_TIERS[i])}

FirstOf(S) == CHOOSE i \in S : \A j \in S : i <= j

getDecayFactorStrict(a) ==
    IF TiersWithinStrict(a) = {} THEN DECAY_TIERS[Len(DECAY_TIERS)].factor
    ELSE DECAY_TIERS[FirstOf(TiersWithinStrict(a))].factor

getDecayFactor(a) ==
    IF TiersWithin(a) = {} THEN DECAY_TIERS[Len(DECAY_TIERS)].factor
    ELSE DECAY_TIERS[FirstOf(TiersWithin(a))].factor

(***************************************************************************)
(* formatAge.  days and the divisor d are both in tenths of a day, so      *)
(* Math.round(days / d) = floor(days / d + 1/2) = (2 days + d) \div 2d.    *)
(***************************************************************************)
MathRound(a, d) == (2 * a + d) \div (2 * d)

Today == [n |-> 0, unit |-> "today"]
Yesterday == [n |-> 0, unit |-> "yesterday"]
Ago(n, unit) == [n |-> n, unit |-> unit]

formatAgeTruncating(days) ==
    IF days < 10 THEN Today
    ELSE IF days < 20 THEN Yesterday
    ELSE IF days < 70 THEN Ago(days \div 10, "d ago")
    ELSE IF days < 300 THEN Ago(days \div 70, "w ago")
    ELSE IF days < 3650 THEN Ago(days \div 300, "mo ago")
    ELSE Ago(days \div 3650, "y ago")

formatAge(days) ==
    IF days < 10 THEN Today
    ELSE IF days < 20 THEN Yesterday
    ELSE IF days < 70 THEN Ago(MathRound(days, 10), "d ago")
    ELSE IF days < 300 THEN Ago(MathRound(days, 70), "w ago")
    ELSE IF days < 3650 THEN Ago(MathRound(days, 300), "mo ago")
    ELSE Ago(MathRound(days, 3650), "y ago")

(***************************************************************************)
(* Search hits (SearchResult).  A snippet is its leading and trailing      *)
(* whitespace count and the length of what lies between.  idx is the       *)
(* position of the hit object in response.results: the object's identity.  *)
(***************************************************************************)
Paths == {"sessions/a.jsonl", "sessions/b.jsonl"}
Scores == {60, 90}
Sources == {"sessions", "memory"}

SnippetOf(path) ==
    IF path = "sessions/a.jsonl" THEN [pad |-> 2, len |-> 40]
    ELSE [pad |-> 0, len |-> 600]

RawHits ==
    {[path |-> p, startLine |-> 1, endLine |-> 9, score |-> sc,
      snippet |-> SnippetOf(p), source |-> src] :
        p \in Paths, sc \in Scores, src \in Sources}

NoHit ==
    [path |-> "", startLine |-> 0, endLine |-> 0, score |-> 0,
     snippet |-> [pad |-> 0, len |-> 0], source |-> ""]

(***************************************************************************)
(* statSync: the file's age now (Date.now() - mtimeMs, in tenths of a      *)
(* day), or a failure (ENOENT).                                            *)
(***************************************************************************)
StatAges == {20, 200, 1000}
StatResults ==
    {[ok |-> TRUE, mtimeAge |-> a] : a \in StatAges} \cup {[ok |-> FALSE, mtimeAge |-> 0]}
StatOutcomes == [Paths -> StatResults]
NoStat == [p \in Paths |-> [ok |-> FALSE, mtimeAge |-> 0]]
HitPaths(hits) == {hits[i].path : i \in 1..Len(hits)}

getFileAgeInDaysStale(st, filePath) ==
    IF st[filePath].ok THEN st[filePath].mtimeAge ELSE 3650

getFileAgeInDays(st, filePath) ==
    IF st[filePath].ok THEN st[filePath].mtimeAge ELSE 0

applyDecay(st, rs) ==
    [i \in 1..Len(rs) |->
        LET r == rs[i]
            age == getFileAgeInDays(st, r.path)
            factor == getDecayFactor(age)
        IN  [path |-> r.path, startLine |-> r.startLine, endLine |-> r.endLine,
             snippet |-> r.snippet, source |-> r.source, idx |-> r.idx,
             rawScore |-> r.score, ageInDays |-> age, decayFactor |-> factor,
             score |-> r.score * factor]]

(***************************************************************************)
(* Standard output of the search process, as lexical tokens.               *)
(***************************************************************************)
Tok(t) == [t |-> t, h |-> NoHit]
LB == Tok("{")
RB == Tok("}")
LA == Tok("[")
RA == Tok("]")
KeyResults == Tok("\"results\":")
KeyOther == Tok("\"error\":\"x\"")
Txt == Tok("plugin loaded")
Fields(h) == [t |-> "fields", h |-> h]

RECURSIVE HitObjects(_)
HitObjects(hits) ==
    IF hits = <<>> THEN <<>>
    ELSE <<LB, Fields(Head(hits)), RB>> \o HitObjects(Tail(hits))

PayloadText(hits) == <<LB, KeyResults, LA>> \o HitObjects(hits) \o <<RA, RB>>

BodyText(body) ==
    CASE body.shape = "none" -> <<>>
      [] body.shape = "bad" -> <<LB, KeyResults, LA, LB, RB>>
      [] body.shape = "noresults" -> <<LB, KeyOther, RB>>
      [] body.shape = "results" -> PayloadText(body.hits)

Stdout(b) == b.pre \o BodyText(b.body) \o b.post

(***************************************************************************)
(* What the search process can do: exit normally with some output, or      *)
(* fail (timeout, non-zero exit, more output than maxBuffer).  The output  *)
(* is non-JSON text, then a body, then non-JSON text.                      *)
(***************************************************************************)
Noise == {<<>>, <<Txt>>, <<LB>>, <<RB>>}
FailureKinds == {"timeout", "exit", "overflow"}

ResultsBody(hits) == [shape |-> "results", hits |-> hits]
OtherBodies == {[shape |-> sh, hits |-> <<>>] : sh \in {"none", "bad", "noresults"}}
SmallBodies == OtherBodies \cup {ResultsBody(hs) : hs \in SeqsUpTo(RawHits, 1)}
AllBodies == OtherBodies \cup {ResultsBody(hs) : hs \in SeqsUpTo(RawHits, MaxHits)}

Backends ==
    {[kind |-> "ok", pre |-> <<>>, body |-> bd, post |-> <<>>] : bd \in AllBodies}
    \cup {[kind |-> "ok", pre |-> pr, body |-> bd, post |-> po] :
            pr \in Noise, bd \in SmallBodies, po \in Noise}
    \cup {[kind |-> k, pre |-> <<>>, body |-> bd, post |-> <<>>] :
            k \in FailureKinds, bd \in SmallBodies}

NoBackend == [kind |-> "unused", pre |-> <<>>, body |-> [shape |-> "none", hits |-> <<>>],
              post |-> <<>>]

(***************************************************************************)
(* execSync: returns the output, or throws when the process fails.         *)
(***************************************************************************)
execSyncPartial(b) == [threw |-> FALSE, output |-> Stdout(b)]

execSync(b) ==
    IF b.kind = "ok" THEN [threw |-> FALSE, output |-> Stdout(b)]
    ELSE [threw |-> TRUE, output |-> <<>>]

(***************************************************************************)
(* output.match(/\{[\s\S]*\}/): from the first "{" to the last "}".        *)
(***************************************************************************)
Positions(output, tok) == {i \in 1..Len(output) : output[i] = tok}
FirstPos(S) == CHOOSE i \in S : \A j \in S : i <= j
LastPos(S) == CHOOSE i \in S : \A j \in S : i >= j

jsonMatch(output) ==
    LET opens == Positions(output, LB)
        closes == Positions(output, RB)
    IN  IF opens = {} \/ closes = {} \/ LastPos(closes) < FirstPos(opens)
        THEN [matched |-> FALSE, text |-> <<>>]
        ELSE [matched |-> TRUE,
              text |-> SubSeq(output, FirstPos(opens), LastPos(closes))]

(***************************************************************************)
(* JSON.parse on the token text: an object that is empty, has one other    *)
(* member, or has a "results" array of hit objects; anything else throws.  *)
(***************************************************************************)
IsHitObjects(mid) ==
    /\ Len(mid) % 3 = 0
    /\ \A k \in 0..((Len(mid) \div 3) - 1) :
          /\ mid[3 * k + 1] = LB
          /\ mid[3 * k + 2].t = "fields"
          /\ mid[3 * k + 3] = RB

ParsedHits(mid) ==
    [k \in 1..(Len(mid) \div 3) |->
        LET h == mid[3 * k - 1].h
        IN  [path |-> h.path, startLine |-> h.startLine, endLine |-> h.endLine,
             score |-> h.score, snippet |-> h.snippet, source |-> h.source,
             idx |-> k]]

JSONparse(text) ==
    LET n == Len(text)
        inner == SubSeq(text, 2, n - 1)
        m == Len(inner)
        mid == SubSeq(inner, 3, m - 1)
        failed == [threw |-> TRUE, hasResults |-> FALSE, results |-> <<>>]
    IN  IF n < 2 \/ text[1] # LB \/ text[n] # RB THEN failed
        ELSE IF inner = <<>> \/ inner = <<KeyOther>>
             THEN [threw |-> FALSE, hasResults |-> FALSE, results |-> <<>>]
        ELSE IF m >= 3 /\ inner[1] = KeyResults /\ inner[2] = LA /\ inner[m] = RA
                /\ IsHitObjects(mid)
             THEN [threw |-> FALSE, hasResults |-> TRUE, results |-> ParsedHits(mid)]
        ELSE failed

(***************************************************************************)
(* searchSessions.                                                         *)
(***************************************************************************)
SearchCommand(query, c) ==
    [program |-> <<"openclaw", "memory", "search">>,
     query |-> <<"'">> \o EscapeQuery(query) \o <<"'">>,
     agent |-> c.agentId,
     maxResults |-> c.maxResults * 3,
     minScore |-> c.minScore * 5,
     json |-> TRUE]

IsSession(r) == r.source = "sessions"

sessionFilterAll(rs) == rs

sessionFilter(rs) == SelectSeq(rs, IsSession)

byMinScoreRaw(ds, c) == SelectSeq(ds, LAMBDA r : r.rawScore * 10 >= c.minScore * 10)

byMinScore(ds, c) == SelectSeq(ds, LAMBDA r : r.score >= c.minScore * 10)

\* Array.prototype.sort with (a, b) => b.score - a.score: stable, descending.
RECURSIVE InsertByScore(_, _)
InsertByScore(sorted, r) ==
    IF sorted = <<>> THEN <<r>>
    ELSE IF Head(sorted).score >= r.score
         THEN <<Head(sorted)>> \o InsertByScore(Tail(sorted), r)
         ELSE <<r>> \o sorted

RECURSIVE sortByScore(_)
sortByScore(ds) ==
    IF ds = <<>> THEN <<>>
    ELSE InsertByScore(sortByScore(SubSeq(ds, 1, Len(ds) - 1)), ds[Len(ds)])

slice(ds, n) == SubSeq(ds, 1, Min(n, Len(ds)))

selectTopUnsorted(ds, c) == sortByScore(slice(byMinScore(ds, c), c.maxResults))

selectTop(ds, c) == slice(sortByScore(byMinScore(ds, c)), c.maxResults)

NoSearch == [cmd |-> <<>>, decayed |-> <<>>, results |-> <<>>, statted |-> {}]

searchSessions(query, c, b, st) ==
    LET ran == execSync(b)
        found == jsonMatch(ran.output)
        response == JSONparse(found.text)
        sessionResults == sessionFilter(response.results)
        dec == applyDecay(st, sessionResults)
        empty == [NoSearch EXCEPT !.cmd = <<SearchCommand(query, c)>>]
    IN  IF ran.threw THEN empty
        ELSE IF ~found.matched THEN empty
        ELSE IF response.threw THEN empty
        ELSE IF ~response.hasResults THEN empty
        ELSE [cmd |-> <<SearchCommand(query, c)>>,
              decayed |-> dec,
              results |-> selectTop(dec, c),
              statted |-> {sessionResults[i].path : i \in 1..Len(sessionResults)}]

(***************************************************************************)
(* formatContext.  The block is a sequence of lines; a header line is      *)
(* "[i] (pct%, age)", a snippet line is described by its length and by     *)
(* whether the ellipsis was appended.                                      *)
(***************************************************************************)
SnippetLimit == 500

Line(kind) == [kind |-> kind, i |-> 0, pct |-> 0, age |-> Today, len |-> 0, ell |-> FALSE]

HeaderLine(i, pct, age) == [Line("header") EXCEPT !.i = i, !.pct = pct, !.age = age]

SnippetLine(sn) ==
    LET trimmed == sn.len
    IN  IF trimmed > SnippetLimit
        THEN [Line("snippet") EXCEPT !.len = SnippetLimit, !.ell = TRUE]
        ELSE [Line("snippet") EXCEPT !.len = trimmed]

RECURSIVE JoinSnippets(_, _, _)
JoinSnippets(rs, i, first) ==
    IF i > Len(rs) THEN <<>>
    ELSE (IF i = 1 THEN <<>> ELSE <<Line("blank")>>)
         \o <<HeaderLine(first + i - 1, MathRound(rs[i].score, 10), formatAge(rs[i].ageInDays)),
              SnippetLine(rs[i].snippet)>>
         \o JoinSnippets(rs, i + 1, first)

formatContextZeroBased(rs) ==
    <<Line("<session-recall>"), Line("intro"), Line("blank")>>
    \o JoinSnippets(rs, 1, 0)
    \o <<Line("</session-recall>")>>

formatContext(rs) ==
    <<Line("<session-recall>"), Line("intro"), Line("blank")>>
    \o JoinSnippets(rs, 1, 1)
    \o <<Line("</session-recall>")>>

(***************************************************************************)
(* The before_agent_start handler.                                         *)
(***************************************************************************)
Nothing == [kind |-> "nothing", prependContext |-> <<>>]
Context(text) == [kind |-> "context", prependContext |-> text]

Log(level, msg, n) == [level |-> level, msg |-> msg, n |-> n]

gateSkipsCaseSensitive(p, c) ==
    \/ p = NoPrompt
    \/ p = <<>>
    \/ Len(p) < c.minPromptLength
    \/ includes(p, NeedleHeartbeat)
    \/ startsWith(p, NeedleSystem)

gateSkips(p, c) ==
    \/ p = NoPrompt
    \/ p = <<>>
    \/ Len(p) < c.minPromptLength
    \/ includes(toLowerCase(p), NeedleHeartbeat)
    \/ startsWith(toLowerCase(p), NeedleSystem)

Init ==
    /\ cfg \in Configs
    /\ phase = "loaded"
    /\ prompt = NoPrompt
    /\ backend = NoBackend
    /\ stat = NoStat
    /\ cmd = <<>>
    /\ decayed = <<>>
    /\ results = <<>>
    /\ fmtArgs = <<>>
    /\ ret = Nothing
    /\ threw = FALSE
    /\ logs = <<>>
    /\ ageInDays = 0
    /\ decayFactor = getDecayFactor(0)
    /\ ageLabel = formatAge(0)

RegisterDisabled ==
    /\ phase = "loaded"
    /\ ~cfg.enabled
    /\ phase' = "disabled"
    /\ logs' = <<Log("info", "disabled by config", 0)>>
    /\ UNCHANGED <<cfg, handlerVars, ageVars>>

RegisterEnabled ==
    /\ phase = "loaded"
    /\ cfg.enabled
    /\ phase' = "idle"
    /\ logs' = <<Log("info", "registered", cfg.maxResults)>>
    /\ UNCHANGED <<cfg, handlerVars, ageVars>>

BeforeAgentStartSkip ==
    /\ phase = "idle"
    /\ \E p \in Prompts :
        /\ gateSkips(p, cfg)
        /\ prompt' = p
    /\ phase' = "returned"
    /\ ret' = Nothing
    /\ threw' = FALSE
    /\ logs' = <<>>
    /\ UNCHANGED <<cfg, backend, stat, cmd, decayed, results, fmtArgs, ageVars>>

BeforeAgentStartSearch ==
    /\ phase = "idle"
    /\ \E p \in {q \in Prompts : ~gateSkips(q, cfg)}, b \in Backends :
       \E st \in {s \in StatOutcomes : \A f \in Paths \ HitPaths(b.body.hits) : s[f] = NoStat[f]} :
       \E found \in {searchSessions(p, cfg, b, st)} :
            /\ prompt' = p
            /\ backend' = b
            /\ stat' = [f \in Paths |-> IF f \in found.statted THEN st[f] ELSE NoStat[f]]
            /\ cmd' = found.cmd
            /\ decayed' = found.decayed
            /\ results' = found.results
            /\ IF Len(found.results) = 0
               THEN /\ fmtArgs' = <<>>
                    /\ ret' = Nothing
                    /\ logs' = <<Log("debug", "no relevant sessions found", 0)>>
               ELSE /\ fmtArgs' = <<found.results>>
                    /\ ret' = Context(formatContext(found.results))
                    /\ logs' = <<Log("info", "injecting session snippets", Len(found.results))>>
    /\ phase' = "returned"
    /\ threw' = FALSE
    /\ UNCHANGED <<cfg, ageVars>>

HandlerReturns ==
    /\ phase = "returned"
    /\ phase' = "idle"
    /\ prompt' = NoPrompt
    /\ backend' = NoBackend
    /\ stat' = NoStat
    /\ cmd' = <<>>
    /\ decayed' = <<>>
    /\ results' = <<>>
    /\ fmtArgs' = <<>>
    /\ ret' = Nothing
    /\ threw' = FALSE
    /\ logs' = <<>>
    /\ UNCHANGED <<cfg, ageVars>>

Next ==
    \/ RegisterDisabled
    \/ RegisterEnabled
    \/ BeforeAgentStartSkip
    \/ BeforeAgentStartSearch
    \/ HandlerReturns

Spec == Init /\ [][Next]_vars

(***************************************************************************)
(* One session file as time passes: each step re-reads its age and         *)
(* re-evaluates getDecayFactor and formatAge.                              *)
(***************************************************************************)
FileAges ==
    /\ ageInDays < MaxAge
    /\ \E d \in 1..MaxStep :
        /\ ageInDays' = ageInDays + d
        /\ decayFactor' = getDecayFactor(ageInDays + d)
        /\ ageLabel' = formatAge(ageInDays + d)
    /\ UNCHANGED <<cfg, phase, handlerVars, logs>>

NextAge == FileAges

SpecAge == Init /\ [][NextAge]_vars

(***************************************************************************)
(* Properties.                                                             *)
(***************************************************************************)
Returned == phase = "returned"
Searched == Returned /\ Len(cmd) = 1
Range(f) == {f[i] : i \in DOMAIN f}

\* The tier table of the documentation, written out.
TierFactor(a) == IF a <= 70 THEN 10 ELSE IF a <= 300 THEN 8 ELSE IF a <= 900 THEN 5 ELSE 2

\* n is the integer nearest to a / d (halves round up).
Nearest(n, a, d) == (2 * n * d - d <= 2 * a) /\ (2 * a < 2 * n * d + d)

\* C1: the selection returned by searchSessions has at most maxResults
\* elements, each with decayed score = rawScore x decayFactor >= minScore,
\* in non-increasing order of decayed score.
C1_SelectionBoundedThresholdedSorted ==
    Returned =>
        /\ Len(results) <= cfg.maxResults
        /\ \A i \in 1..Len(results) :
              /\ results[i].score = results[i].rawScore * results[i].decayFactor
              /\ results[i].score >= cfg.minScore * 10
        /\ \A i \in 1..(Len(results) - 1) : results[i].score >= results[i + 1].score

\* A hit whose raw score passes the threshold was dropped for its decayed
\* score while another hit was returned.
C1_Witness ==
    /\ Returned
    /\ Len(results) >= 1
    /\ cfg.minScore > 0
    /\ \E i \in 1..Len(decayed) :
          /\ decayed[i].rawScore >= cfg.minScore
          /\ decayed[i].score < cfg.minScore * 10
          /\ decayed[i] \notin Range(results)

\* C2 as stated: the handler skips (returns nothing, never calls the
\* backend) exactly when the prompt is absent, shorter than minPromptLength,
\* or its lower-cased form contains "heartbeat" or starts with "[system";
\* in every other invocation the search is attempted.
C2_SkipExactlyWhenAbsentShortOrSynthetic ==
    Returned =>
        IF \/ prompt = NoPrompt
           \/ (prompt # NoPrompt /\ Len(prompt) < cfg.minPromptLength)
           \/ includes(toLowerCase(prompt), NeedleHeartbeat)
           \/ startsWith(toLowerCase(prompt), NeedleSystem)
        THEN ret = Nothing /\ cmd = <<>>
        ELSE Len(cmd) = 1

\* C2 amended: an empty prompt is skipped as well, whatever minPromptLength;
\* in every other invocation the search is attempted.
C2_SkipExactlyWhenAbsentEmptyShortOrSynthetic ==
    Returned =>
        IF \/ prompt = NoPrompt
           \/ prompt = <<>>
           \/ (prompt # NoPrompt /\ Len(prompt) < cfg.minPromptLength)
           \/ includes(toLowerCase(prompt), NeedleHeartbeat)
           \/ startsWith(toLowerCase(prompt), NeedleSystem)
        THEN ret = Nothing /\ cmd = <<>>
        ELSE Len(cmd) = 1

\* An upper-case heartbeat prompt, long enough, was skipped without a search.
C2_Witness ==
    /\ Returned
    /\ prompt = PromptHeartbeat
    /\ Len(prompt) >= cfg.minPromptLength
    /\ cmd = <<>>
    /\ ret = Nothing

SearchFailed(b) ==
    \/ b.kind \in FailureKinds
    \/ b.body.shape \in {"none", "bad", "noresults"}

\* C3: whatever the search call does, the handler does not propagate an
\* error and returns nothing or one prependContext string; when the call
\* times out, exits non-zero, overflows, or prints no JSON, unparseable
\* JSON or JSON without results, it returns nothing.
C3_FailuresDegradeToNothing ==
    Returned =>
        /\ ~threw
        /\ ret = Nothing \/ (ret.kind = "context" /\ ret.prependContext # <<>>)
        /\ (Searched /\ SearchFailed(backend)) =>
              (ret = Nothing /\ results = <<>> /\ fmtArgs = <<>>)

\* The process failed after printing a payload with a qualifying session hit.
C3_Witness ==
    /\ Searched
    /\ backend.kind \in FailureKinds
    /\ backend.body.shape = "results"
    /\ \E i \in 1..Len(backend.body.hits) :
          /\ backend.body.hits[i].source = "sessions"
          /\ backend.body.hits[i].score >= cfg.minScore
    /\ ret = Nothing

\* C4: for output made of non-JSON text (braces included), one well-formed
\* payload, and more non-JSON text, searchSessions returns the selection it
\* returns for the bare payload.
C4_SurroundingTextIgnored ==
    (Searched /\ backend.kind = "ok" /\ backend.body.shape = "results") =>
        results = searchSessions(prompt, cfg,
                                 [backend EXCEPT !.pre = <<>>, !.post = <<>>], stat).results

\* C5: getDecayFactor is 1.0 up to 7 days, 0.8 up to 30, 0.5 up to 90 and
\* 0.2 beyond (bounds inclusive); it lies in (0,1] and never increases as
\* the age grows.
C5_DecayStepFunction ==
    /\ [](/\ decayFactor = TierFactor(ageInDays)
          /\ decayFactor > 0
          /\ decayFactor <= 10)
    /\ [][ageInDays' >= ageInDays => decayFactor' <= decayFactor]_vars

\* Just past the 7 day boundary the factor has dropped to 0.8.
C5_Witness == ageInDays = 71 /\ decayFactor = 8

\* C6: every returned result, and every rendered item, is a backend hit
\* whose source is "sessions".
C6_OnlySessionHits ==
    Returned =>
        /\ \A i \in 1..Len(results) :
              /\ results[i].source = "sessions"
              /\ backend.body.shape = "results"
              /\ results[i].idx \in 1..Len(backend.body.hits)
              /\ backend.body.hits[results[i].idx].source = "sessions"
              /\ backend.body.hits[results[i].idx].path = results[i].path
              /\ backend.body.hits[results[i].idx].score = results[i].rawScore
        /\ ret.kind = "context" =>
              /\ fmtArgs = <<results>>
              /\ Len(SelectSeq(ret.prependContext, LAMBDA l : l.kind = "header"))
                    = Len(results)

\* A context was injected although a high-scoring hit of another source was
\* in the response.
C6_Witness ==
    /\ Returned
    /\ ret.kind = "context"
    /\ \E i \in 1..Len(backend.body.hits) :
          /\ backend.body.hits[i].source = "memory"
          /\ backend.body.hits[i].score = 90

Headers(text) == SelectSeq(text, LAMBDA l : l.kind = "header")

\* C7: formatContext is only invoked with a non-empty selection; an empty
\* selection returns nothing; a selection of n >= 1 results returns one
\* block with exactly n header lines numbered 1..n in rank order.
C7_OneHeaderPerResultInRankOrder ==
    Returned =>
        /\ \A k \in 1..Len(fmtArgs) : Len(fmtArgs[k]) >= 1
        /\ Len(results) = 0 => (ret = Nothing /\ fmtArgs = <<>>)
        /\ Len(results) >= 1 =>
              /\ fmtArgs = <<results>>
              /\ ret.kind = "context"
              /\ Len(SelectSeq(ret.prependContext, LAMBDA l : l.kind = "<session-recall>")) = 1
              /\ Len(SelectSeq(ret.prependContext, LAMBDA l : l.kind = "</session-recall>")) = 1
              /\ Len(Headers(ret.prependContext)) = Len(results)
              /\ \A i \in 1..Len(results) :
                    LET h == Headers(ret.prependContext)[i]
                    IN  /\ h.i = i
                        /\ Nearest(h.pct, results[i].score, 10)
                        /\ h.age = formatAge(results[i].ageInDays)

\* Two results of different decayed score were rendered.
C7_Witness ==
    /\ Returned
    /\ Len(results) = 2
    /\ results[1].score > results[2].score
    /\ ret.kind = "context"

\* C8: formatAge picks the first matching threshold (<1 today, <2 yesterday,
\* <7 d, <30 w, <365 mo, else y) and rounds the count to the nearest
\* integer; 0.5 is today, 1.5 yesterday, 6.9 "7d ago", 400 "1y ago".
C8_AgeLabels ==
    LET a == ageInDays
        l == ageLabel
    IN  /\ a < 10 => l = Today
        /\ (a >= 10 /\ a < 20) => l = Yesterday
        /\ (a >= 20 /\ a < 70) => (l.unit = "d ago" /\ Nearest(l.n, a, 10))
        /\ (a >= 70 /\ a < 300) => (l.unit = "w ago" /\ Nearest(l.n, a, 70))
        /\ (a >= 300 /\ a < 3650) => (l.unit = "mo ago" /\ Nearest(l.n, a, 300))
        /\ a >= 3650 => (l.unit = "y ago" /\ Nearest(l.n, a, 3650))
        /\ a = 5 => l = Today
        /\ a = 15 => l = Yesterday
        /\ a = 69 => l = Ago(7, "d ago")
        /\ a = 4000 => l = Ago(1, "y ago")

\* 6.9 days is labelled "7d ago".
C8_Witness == ageInDays = 69 /\ ageLabel = Ago(7, "d ago")

\* C9: a hit whose age lookup fails gets age 0 and factor 1.0 (decayed
\* score = raw score), no error is raised, and every other hit of the batch
\* is scored from its own age.
C9_StatFailureIsPerHit ==
    Returned =>
        /\ ~threw
        /\ \A i \in 1..Len(decayed) :
              LET d == decayed[i]
                  s == stat[d.path]
              IN  IF s.ok
                  THEN /\ d.ageInDays = s.mtimeAge
                       /\ d.decayFactor = TierFactor(s.mtimeAge)
                       /\ d.score = d.rawScore * TierFactor(s.mtimeAge)
                  ELSE /\ d.ageInDays = 0
                       /\ d.decayFactor = 10
                       /\ d.score = d.rawScore * 10

\* One hit's lookup failed, the other hit of the batch is 100 days old.
C9_Witness ==
    /\ Returned
    /\ Len(decayed) = 2
    /\ ~stat[decayed[1].path].ok
    /\ stat[decayed[2].path].ok
    /\ decayed[2].ageInDays = 1000
    /\ decayed[2].decayFactor = 2
    /\ decayed[1] \in Range(results)

Qualifying == {i \in 1..Len(decayed) : decayed[i].score >= cfg.minScore * 10}

\* C10: with Q the session hits whose decayed score >= minScore, the
\* selection has min(maxResults, |Q|) elements, all from Q, none twice, and
\* no hit of Q left out scores strictly higher than a returned one; raw 0.9
\* at 100 days and raw 0.6 at 2 days with minScore 0.5 returns the second.
C10_TopOfQualifyingSet ==
    Returned =>
        /\ Len(results) = Min(cfg.maxResults, Cardinality(Qualifying))
        /\ \A i \in 1..Len(results) : \E q \in Qualifying : results[i] = decayed[q]
        /\ \A i, j \in 1..Len(results) : i # j => results[i].idx # results[j].idx
        /\ \A q \in Qualifying :
              (\A i \in 1..Len(results) : results[i].idx # decayed[q].idx) =>
                  \A i \in 1..Len(results) : decayed[q].score <= results[i].score
        /\ \A i \in 1..Len(decayed) :
              /\ decayed[i].source = "sessions"
              /\ backend.body.hits[decayed[i].idx].source = "sessions"
        /\ ( /\ Len(decayed) = 2
             /\ cfg.minScore = 50
             /\ decayed[1].rawScore = 90 /\ decayed[1].ageInDays = 1000
             /\ decayed[2].rawScore = 60 /\ decayed[2].ageInDays = 20 ) =>
                  results = <<decayed[2]>>

\* The example of the documentation: 0.9 at 100 days, 0.6 at 2 days.
C10_Witness ==
    /\ Returned
    /\ cfg.minScore = 50
    /\ Len(decayed) = 2
    /\ decayed[1].rawScore = 90 /\ decayed[1].ageInDays = 1000
    /\ decayed[2].rawScore = 60 /\ decayed[2].ageInDays = 20
    /\ Len(results) = 1
    /\ results[1].rawScore = 60

====
